---- MODULE Spec2Model ----
(***************************************************************************)
(* sse.js: the SSE object of lib/sse.js (the incremental event-stream      *)
(* parser and the connection state machine on top of an XMLHttpRequest),   *)
(* with the reconnection layer (autoReconnect, maxRetries, Last-Event-ID)  *)
(* that README.md documents.                                               *)
(*                                                                         *)
(* Text is a sequence of one-character strings. Every handler of the       *)
(* object is an operator from a world record (the object's fields, its    *)
(* current transport and the log of dispatched events) to the world after  *)
(* the handler returned, so that a listener calling back into the object   *)
(* during a dispatch is the composition of the operators. An action of     *)
(* the state machine is one call from outside: a public method, one        *)
(* notification of the transport, or the reconnect timer firing.           *)
(***************************************************************************)
EXTENDS Integers, Sequences, FiniteSets, TLC

\* ------------------------------------------------------------------ text

CR == "\r"
LF == "\n"
SP == " "
TAB == "\t"
COLON == ":"

\* String.prototype.trim / trimRight strip these (of the characters modelled).
WhiteSpace == {SP, TAB, CR, LF}

RECURSIVE TrimLeft(_)
TrimLeft(str) ==
  IF str # <<>> /\ Head(str) \in WhiteSpace THEN TrimLeft(Tail(str)) ELSE str

RECURSIVE TrimRight(_)
TrimRight(str) ==
  IF str # <<>> /\ str[Len(str)] \in WhiteSpace
    THEN TrimRight(SubSeq(str, 1, Len(str) - 1))
    ELSE str

Trim(str) == TrimLeft(TrimRight(str))

\* str.substring(from) with a 0-based index.
Substring(str, from) ==
  IF from >= Len(str) THEN <<>> ELSE SubSeq(str, from + 1, Len(str))

\* str.indexOf(c): 0-based, -1 when absent.
IndexOf(str, c) ==
  IF \E i \in 1..Len(str) : str[i] = c
    THEN (CHOOSE i \in 1..Len(str) : str[i] = c /\ \A j \in 1..(i - 1) : str[j] # c) - 1
    ELSE -1

\* Whether str continues with pat at 1-based position i.
StartsAt(str, i, pat) ==
  /\ i + Len(pat) - 1 <= Len(str)
  /\ \A k \in 1..Len(pat) : str[i + k - 1] = pat[k]

\* The alternatives of the group (\r\n|\r|\n), in the order the regex tries them.
EolAlternatives == << <<CR, LF>>, <<CR>>, <<LF>> >>

\* The match of /(\r\n|\r|\n){2}/ starting at position i: <<length, captured>>,
\* or <<0, <<>>>> when there is none. The first iteration takes the first
\* alternative that lets the second iteration match (backtracking); the capture
\* is what the second iteration matched.
BoundaryAt(str, i) ==
  LET firsts == { a \in 1..3 :
                    /\ StartsAt(str, i, EolAlternatives[a])
                    /\ \E b \in 1..3 :
                         StartsAt(str, i + Len(EolAlternatives[a]), EolAlternatives[b]) }
  IN IF firsts = {} THEN <<0, <<>>>>
     ELSE LET a == CHOOSE x \in firsts : \A y \in firsts : x <= y
              j == i + Len(EolAlternatives[a])
              b == CHOOSE x \in 1..3 :
                     /\ StartsAt(str, j, EolAlternatives[x])
                     /\ \A y \in 1..(x - 1) : ~StartsAt(str, j, EolAlternatives[y])
          IN <<Len(EolAlternatives[a]) + Len(EolAlternatives[b]), EolAlternatives[b]>>

\* (chunk + data).split(/(\r\n|\r|\n){2}/g): the pieces between the matches,
\* each match leaving its captured group in the array.
RECURSIVE SplitFrom(_, _, _)
SplitFrom(str, i, start) ==
  IF i > Len(str) THEN << SubSeq(str, start, Len(str)) >>
  ELSE LET m == BoundaryAt(str, i)
       IN IF m[1] = 0 THEN SplitFrom(str, i + 1, start)
          ELSE << SubSeq(str, start, i - 1), m[2] >>
               \o SplitFrom(str, i + m[1], i + m[1])

SplitRecords(str) == SplitFrom(str, 1, 1)

\* The match of /\n|\r\n|\r/ at position i: its length, 0 when there is none.
LineBreakAt(str, i) ==
  IF StartsAt(str, i, <<LF>>) THEN 1
  ELSE IF StartsAt(str, i, <<CR, LF>>) THEN 2
  ELSE IF StartsAt(str, i, <<CR>>) THEN 1
  ELSE 0

\* chunk.split(/\n|\r\n|\r/)
RECURSIVE LinesFrom(_, _, _)
LinesFrom(str, i, start) ==
  IF i > Len(str) THEN << SubSeq(str, start, Len(str)) >>
  ELSE LET n == LineBreakAt(str, i)
       IN IF n = 0 THEN LinesFrom(str, i + 1, start)
          ELSE << SubSeq(str, start, i - 1) >> \o LinesFrom(str, i + n, i + n)

SplitLines(str) == LinesFrom(str, 1, 1)

\* ---------------------------------------------------------------- parser

None == <<>>
Some(v) == <<v>>

ID == <<"i", "d">>
RETRY == <<"r", "e", "t", "r", "y">>
DATA == <<"d", "a", "t", "a">>
EVENT == <<"e", "v", "e", "n", "t">>
MESSAGE == <<"m", "e", "s", "s", "a", "g", "e">>

\* var e = {'id': null, 'retry': null, 'data': null, 'event': 'message'}
NewRecord == [id |-> None, retry |-> None, data |-> None, event |-> Some(MESSAGE)]

\* `field in e` for the own properties of e.
FieldInRecord(field) == field \in {ID, RETRY, DATA, EVENT}

SetField(e, field, value) ==
  IF field = ID THEN [e EXCEPT !.id = Some(value)]
  ELSE IF field = RETRY THEN [e EXCEPT !.retry = Some(value)]
  ELSE IF field = DATA THEN [e EXCEPT !.data = Some(value)]
  ELSE [e EXCEPT !.event = Some(value)]

\* The callback of chunk.split(...).forEach in _parseEventChunk: one line.
ParseLine(e, rawLine) ==
  LET line == TrimRight(rawLine)
      index == IndexOf(line, COLON)
  IN IF index <= 0 THEN e
     ELSE LET field == SubSeq(line, 1, index)
              skip == IF index + 2 <= Len(line) /\ line[index + 2] = SP THEN 2 ELSE 1
              value == Substring(line, index + skip)
          IN IF ~FieldInRecord(field) THEN e
             ELSE IF field = DATA /\ e.data # None
               THEN [e EXCEPT !.data = Some(e.data[1] \o <<LF>> \o value)]
               ELSE SetField(e, field, value)

RECURSIVE ParseLines(_, _)
ParseLines(e, lines) ==
  IF lines = <<>> THEN e ELSE ParseLines(ParseLine(e, Head(lines)), Tail(lines))

\* The record e that _parseEventChunk accumulates for a non-empty chunk.
ParseRecord(chunk) == ParseLines(NewRecord, SplitLines(chunk))

\* ------------------------------------------------------------ the object

INITIALIZING == -1
CONNECTING == 0
OPEN == 1
CLOSED == 2

\* XMLHttpRequest.readyState
UNSENT == 0
OPENED == 1
HEADERS_RECEIVED == 2
LOADING == 3
DONE == 4

\* The only status _onStreamProgress accepts.
HTTP_OK == 200

\* Event types, as text.
T_readystatechange ==
  <<"r", "e", "a", "d", "y", "s", "t", "a", "t", "e", "c", "h", "a", "n", "g", "e">>
T_open == <<"o", "p", "e", "n">>
T_error == <<"e", "r", "r", "o", "r">>
T_abort == <<"a", "b", "o", "r", "t">>

\* new CustomEvent(type), with the attributes the object sets on its events.
CustomEvent(type) ==
  [type |-> type, data |-> <<>>, id |-> None, lastEventId |-> <<>>, readyState |-> None]

\* var event = new CustomEvent('readystatechange'); event.readyState = state
ReadyStateChange(state) ==
  [CustomEvent(T_readystatechange) EXCEPT !.readyState = Some(state)]

\* xhr.responseText: what the transport has received so far of the response.
ResponseText(w) == SubSeq(w.body, 1, w.loaded)

Digits == {"0", "1", "2", "3", "4", "5", "6", "7", "8", "9"}
NUL == "NUL"

DigitValue(c) == CHOOSE n \in 0..9 : <<"0", "1", "2", "3", "4", "5", "6", "7", "8", "9">>[n + 1] = c

RECURSIVE ParseInt(_)
ParseInt(str) ==
  IF str = <<>> THEN 0 ELSE 10 * ParseInt(SubSeq(str, 1, Len(str) - 1)) + DigitValue(str[Len(str)])

\* The id field of a record becomes the connection's lastEventId unless it holds NUL.
ApplyId(w, e) ==
  IF e.id # None /\ \A i \in 1..Len(e.id[1]) : e.id[1][i] # NUL
    THEN [w EXCEPT !.lastEventId = e.id[1]]
    ELSE w

\* The retry field of a record becomes reconnectDelay when it is made of digits only.
ApplyRetry(w, e) ==
  IF e.retry # None /\ e.retry[1] # <<>> /\ \A i \in 1..Len(e.retry[1]) : e.retry[1][i] \in Digits
    THEN [w EXCEPT !.reconnectDelay = ParseInt(e.retry[1])]
    ELSE w

\* A parser that makes a message event of every record, whatever type it names.
MessageEventOf(w, chunk) ==
  [type |-> MESSAGE,
   data |-> IF ParseRecord(chunk).data = None THEN <<>> ELSE ParseRecord(chunk).data[1],
   id |-> ParseRecord(chunk).id,
   lastEventId |-> w.lastEventId,
   readyState |-> None]

\* The event _parseEventChunk returns for a non-empty chunk:
\* new CustomEvent(e.event); event.data = e.data || ''; event.id = e.id.
ParseEventChunk(w, chunk) ==
  LET e == ParseRecord(chunk)
  IN [type |-> e.event[1],
      data |-> IF e.data = None THEN <<>> ELSE e.data[1],
      id |-> e.id,
      lastEventId |-> w.lastEventId,
      readyState |-> None]

\* When auto-reconnect is enabled and the retry limit (0: none) is not exhausted,
\* count the retry and arm the timer with the delay configured at that moment.
ScheduleReconnect(w) ==
  IF w.autoReconnect /\ (w.maxRetries = 0 \/ w.retryCount < w.maxRetries)
    THEN [w EXCEPT !.retryCount = @ + 1, !.reconnectTimer = Some(w.reconnectDelay)]
    ELSE w

\* A policy that never resets the retry counter.
PolicyWithoutReset(w, before, state) ==
  IF w.readyState = state /\ state = CLOSED /\ before # CLOSED THEN ScheduleReconnect(w) ELSE w

\* The reconnection policy at a change of readyState from `before`: reaching OPEN
\* resets the retry counter, entering CLOSED schedules a reconnect.
ReconnectPolicy(w, before, state) ==
  IF w.readyState # state THEN w
  ELSE IF state = OPEN THEN [w EXCEPT !.retryCount = 0]
  ELSE IF state = CLOSED /\ before # CLOSED THEN ScheduleReconnect(w)
  ELSE w

\* A close() that leaves the reconnection state alone.
KeepReconnect(w) == w
\* A close() that also forgot what the parser had learnt from the stream.
CancelAndForget(w) ==
  [w EXCEPT !.reconnectTimer = None, !.autoReconnect = FALSE, !.lastEventId = <<>>]


\* An explicit close() cancels the pending reconnect and disables auto-reconnect.
CancelReconnect(w) == [w EXCEPT !.reconnectTimer = None, !.autoReconnect = FALSE]

\* A stream() that sends the header whatever lastEventId and useLastEventId are.
HeaderAlways(w) == Some(w.lastEventId)

\* The Last-Event-ID request header stream() sets, if any.
LastEventIdHeader(w) ==
  IF w.useLastEventId /\ w.lastEventId # <<>> THEN Some(w.lastEventId) ELSE None

\* this.<method>(args) on the object in world w: every call a method makes on the
\* object or on its transport goes through here.
RECURSIVE This(_, _, _)

\* A listener: what the callback does with the object when it is invoked.
Invoke(w, callback, e) ==
  LET w1 == [w EXCEPT !.calls = Append(@, <<callback, e.type>>)]
  IN IF callback = "close" THEN This(w1, "close", <<>>)
     ELSE IF callback = "stream" THEN This(w1, "stream", <<>>)
     ELSE IF callback = "adder" THEN This(w1, "addEventListener", <<e.type, "g">>)
     ELSE IF callback = "remover" THEN This(w1, "removeEventListener", <<e.type, "g">>)
     ELSE w1

\* An every() that reads this.listeners[e.type] anew at each step.
RECURSIVE InvokeFrom(_, _, _)
InvokeFrom(w, i, e) ==
  IF w.thrown \/ e.type \notin DOMAIN w.listeners THEN w
  ELSE IF i > Len(w.listeners[e.type]) THEN w
  ELSE InvokeFrom(Invoke(w, w.listeners[e.type][i], e), i + 1, e)

InvokeLive(w, callbacks, e) == InvokeFrom(w, 1, e)

\* this.listeners[e.type].every(...) over the array as it is when every() starts.
RECURSIVE InvokeAll(_, _, _)
InvokeAll(w, callbacks, e) ==
  IF callbacks = <<>> \/ w.thrown THEN w
  ELSE InvokeAll(Invoke(w, Head(callbacks), e), Tail(callbacks), e)

\* A dispatchEvent that invokes the listeners before the on<type> handler.
ListenersFirst(w, e) ==
  IF w.thrown THEN w
  ELSE LET w1 == [w EXCEPT !.events = Append(@, e)]
           Handler(w2) ==
             IF w2.thrown \/ e.type \notin DOMAIN w2.handlers THEN w2
             ELSE Invoke(w2, w2.handlers[e.type], e)
       IN Handler(IF e.type \in DOMAIN w1.listeners
                    THEN InvokeAll(w1, w1.listeners[e.type], e)
                    ELSE w1)

DispatchEvent(w, e) ==
  IF w.thrown THEN w
  ELSE LET w1 == [w EXCEPT !.events = Append(@, e)]
           Listeners(w2) ==
             IF w2.thrown \/ e.type \notin DOMAIN w2.listeners THEN w2
             ELSE InvokeAll(w2, w2.listeners[e.type], e)
       IN Listeners(IF e.type \in DOMAIN w1.handlers
                      THEN Invoke(w1, w1.handlers[e.type], e)
                      ELSE w1)
\* An addEventListener that pushes the listener whether or not it is registered.
AddAlways(w, type, listener) ==
  [w EXCEPT !.listeners =
     IF type \in DOMAIN @ THEN [@ EXCEPT ![type] = Append(@, listener)]
     ELSE @ @@ (type :> <<listener>>)]

\* addEventListener(type, listener)
AddEventListener(w, type, listener) ==
  IF type \notin DOMAIN w.listeners
    THEN [w EXCEPT !.listeners = @ @@ (type :> <<listener>>)]
  ELSE IF \E i \in 1..Len(w.listeners[type]) : w.listeners[type][i] = listener
    THEN w
  ELSE [w EXCEPT !.listeners[type] = Append(@, listener)]

\* A removeEventListener that keeps the emptied array of the type.
RemoveKeepingType(w, type, listener) ==
  IF type \notin DOMAIN w.listeners THEN w
  ELSE [w EXCEPT !.listeners[type] = SelectSeq(@, LAMBDA element : element # listener)]

\* removeEventListener(type, listener)
RemoveEventListener(w, type, listener) ==
  IF type \notin DOMAIN w.listeners THEN w
  ELSE LET filtered == SelectSeq(w.listeners[type], LAMBDA element : element # listener)
       IN IF filtered = <<>>
            THEN [w EXCEPT !.listeners = [t \in DOMAIN @ \ {type} |-> @[t]]]
            ELSE [w EXCEPT !.listeners[type] = filtered]

\* A readystatechange handler that ignores the transport's DONE.
IgnoreDone(w) == w


SetReadyState(w, state) ==
  IF w.thrown THEN w
  ELSE LET Changed(w1) ==
             IF w1.thrown THEN w1 ELSE ReconnectPolicy(w1, w.readyState, state)
       IN Changed(This([w EXCEPT !.readyState = state], "dispatchEvent",
                       <<ReadyStateChange(state)>>))

CheckStreamClosed(w) ==
  IF w.thrown \/ w.xhr = 0 THEN w
  ELSE IF w.xhrReadyState = DONE THEN This(w, "_setReadyState", <<CLOSED>>)
  ELSE w

\* xhr.abort() on the current transport. A browser's XMLHttpRequest that is not
\* DONE notifies readystatechange and abort before abort() returns, an exception
\* of a handler not reaching the caller; the test mock notifies nothing.
XhrAbort(w) ==
  LET w1 == [w EXCEPT !.live = @ \ {w.xhr}]
  IN IF w.browser /\ w.xhrReadyState \in {OPENED, HEADERS_RECEIVED, LOADING}
       THEN LET NotifyAbort(w2) == This([w2 EXCEPT !.thrown = FALSE], "_onStreamAbort", <<>>)
                Aborted(w3) == [w3 EXCEPT !.thrown = FALSE, !.xhrReadyState = UNSENT]
            IN Aborted(NotifyAbort(This([w1 EXCEPT !.xhrReadyState = DONE],
                                        "_checkStreamClosed", <<>>)))
       ELSE w1
\* close() without the test of readyState: what close() would do if it did not
\* return early on a CLOSED instance.
CloseUnchecked(w) ==
  IF w.thrown THEN w
  ELSE IF w.xhr = 0 THEN [w EXCEPT !.thrown = TRUE]
  ELSE This([This(w, "xhr.abort", <<>>) EXCEPT !.xhr = 0], "_setReadyState", <<CLOSED>>)


\* close() of lib/sse.js.
CloseBody(w) ==
  IF w.thrown \/ w.readyState = CLOSED THEN w
  ELSE IF w.xhr = 0 THEN [w EXCEPT !.thrown = TRUE]
  ELSE This([This(w, "xhr.abort", <<>>) EXCEPT !.xhr = 0], "_setReadyState", <<CLOSED>>)

\* close() as the application calls it.
Close(w) == CloseBody(CancelReconnect(w))

OnStreamFailure(w) ==
  This(This(w, "dispatchEvent", <<CustomEvent(T_error)>>), "_close", <<>>)

OnStreamAbort(w) ==
  This(This(w, "dispatchEvent", <<CustomEvent(T_abort)>>), "_close", <<>>)

\* stream() past its guard: the new transport has sent its request and has no
\* response yet.
Connect(w) ==
  LET Send(w1) ==
        IF w1.thrown THEN w1
        ELSE [w1 EXCEPT !.xhr = w1.opened + 1,
                        !.opened = @ + 1,
                        !.live = @ \cup {w1.opened + 1},
                        !.xhrReadyState = OPENED,
                        !.status = IF w1.browser THEN 0 ELSE HTTP_OK,
                        !.body = <<>>,
                        !.loaded = 0,
                        !.requestHeader = LastEventIdHeader(w1)]
  IN Send(This([w EXCEPT !.events = <<>>], "_setReadyState", <<CONNECTING>>))

\* A stream() whose guard only stops the calls made by listeners.
StreamUnguarded(w) ==
  IF w.thrown \/ (w.xhr # 0 /\ w.calls # <<>>) THEN w ELSE Connect(w)

Stream(w) ==
  IF w.thrown \/ w.xhr # 0 THEN w ELSE Connect(w)

This(w, method, args) ==
  IF method = "dispatchEvent" THEN DispatchEvent(w, args[1])
  ELSE IF method = "_setReadyState" THEN SetReadyState(w, args[1])
  ELSE IF method = "_checkStreamClosed" THEN CheckStreamClosed(w)
  ELSE IF method = "_onStreamAbort" THEN OnStreamAbort(w)
  ELSE IF method = "xhr.abort" THEN XhrAbort(w)
  ELSE IF method = "_close" THEN CloseBody(w)
  ELSE IF method = "close" THEN Close(w)
  ELSE IF method = "addEventListener" THEN AddEventListener(w, args[1], args[2])
  ELSE IF method = "removeEventListener" THEN RemoveEventListener(w, args[1], args[2])
  ELSE Stream(w)

\* A parser that raises an error for a record without data.
DispatchStrict(w, chunk) ==
  IF w.thrown \/ chunk = <<>> THEN w
  ELSE IF ParseRecord(chunk).data = None THEN [w EXCEPT !.thrown = TRUE]
  ELSE This(w, "dispatchEvent", <<ParseEventChunk(w, chunk)>>)

\* Each id and retry line of a record, as the parser reads the line, is applied
\* to the connection in the order of the lines.
RECURSIVE ApplyFields(_, _)
ApplyFields(w, lines) ==
  IF lines = <<>> THEN w
  ELSE LET Field(e) == ApplyRetry(ApplyId(w, e), e)
       IN ApplyFields(Field(ParseLine(NewRecord, Head(lines))), Tail(lines))

\* this.dispatchEvent(this._parseEventChunk(part)), the id and retry lines of
\* the record applied to the connection first. An empty chunk parses to null.
DispatchChunk(w, chunk) ==
  IF w.thrown \/ chunk = <<>> THEN w
  ELSE LET Dispatch(w1) == This(w1, "dispatchEvent", <<ParseEventChunk(w1, chunk)>>)
       IN Dispatch(ApplyFields(w, SplitLines(chunk)))

\* parts.forEach(...) of _onStreamProgress.
RECURSIVE DispatchParts(_, _)
DispatchParts(w, parts) ==
  IF parts = <<>> \/ w.thrown THEN w
  ELSE DispatchParts(IF Len(Trim(Head(parts))) > 0 THEN DispatchChunk(w, Head(parts)) ELSE w,
                     Tail(parts))

\* The tail of _onStreamProgress, from `var data = ...`.
ConsumeResponse(w) ==
  IF w.thrown THEN w
  ELSE IF w.xhr = 0 THEN [w EXCEPT !.thrown = TRUE]
  ELSE LET Keep(w1, parts) ==
             IF w1.thrown THEN w1 ELSE [w1 EXCEPT !.chunk = parts[Len(parts)]]
           Each(data, parts) ==
             Keep(DispatchParts([w EXCEPT !.progress = @ + Len(data)],
                                SubSeq(parts, 1, Len(parts) - 1)),
                  parts)
           Split(data) == Each(data, SplitRecords(w.chunk \o data))
       IN Split(Substring(ResponseText(w), w.progress))

\* An _onStreamProgress that parses without announcing the connection.
ProgressWithoutOpen(w) ==
  IF w.thrown \/ w.xhr = 0 THEN w
  ELSE IF w.status # HTTP_OK THEN OnStreamFailure(w)
  ELSE ConsumeResponse(w)

\* An _onStreamProgress that announces the connection before it tests the status.
OpenBeforeStatus(w) ==
  IF w.thrown \/ w.xhr = 0 THEN w
  ELSE LET Tested(w1) ==
             IF w1.thrown \/ w1.xhr = 0 THEN w1
             ELSE IF w1.status # HTTP_OK THEN OnStreamFailure(w1)
             ELSE ConsumeResponse(w1)
       IN Tested(IF w.readyState = CONNECTING
                   THEN This(This(w, "dispatchEvent", <<CustomEvent(T_open)>>),
                             "_setReadyState", <<OPEN>>)
                   ELSE w)

OnStreamProgress(w) ==
  IF w.thrown \/ w.xhr = 0 THEN w
  ELSE IF w.status # HTTP_OK THEN OnStreamFailure(w)
  ELSE IF w.readyState = CONNECTING
    THEN ConsumeResponse(This(This(w, "dispatchEvent", <<CustomEvent(T_open)>>),
                              "_setReadyState", <<OPEN>>))
    ELSE ConsumeResponse(w)

OnStreamLoaded(w) ==
  LET Clear(w2) == IF w2.thrown THEN w2 ELSE [w2 EXCEPT !.chunk = <<>>]
      Flush(w1) == Clear(DispatchChunk(w1, w1.chunk))
  IN Flush(OnStreamProgress(w))

\* ------------------------------------------------------- the state machine

\* Bounds of the model.
MaxOpened == 3
MaxNotes == 3
MaxRetriesLimit == 2

\* options.reconnectDelay when the caller gives none.
DefaultReconnectDelay == 3000

VARIABLES
  readyState,      \* this.readyState
  xhr,             \* this.xhr: 0 for null, else the serial number of the transport
  progress,        \* this.progress
  chunk,           \* this.chunk
  listeners,       \* this.listeners: type -> array of callbacks
  handlers,        \* the on<type> properties of the object: type -> callback
  lastEventId,     \* this.lastEventId
  reconnectDelay,  \* this.reconnectDelay
  retryCount,      \* this.retryCount
  reconnectTimer,  \* the pending reconnect: None, or Some(delay it was armed with)
  autoReconnect,   \* this.autoReconnect
  maxRetries,      \* this.maxRetries, 0 for null
  useLastEventId,  \* this.useLastEventId
  browser,         \* whether XMLHttpRequest is a browser's (TRUE) or the tests' mock
  xhrReadyState,   \* readyState of the transport created last
  status,          \* its status
  body,            \* the whole response the server sends on it
  loaded,          \* how much of body it has received: responseText is that prefix
  requestHeader,   \* the Last-Event-ID header of its request: None or Some(value)
  opened,          \* transports created so far
  live,            \* transports created and not aborted
  notes,           \* notifications the mock has triggered so far
  events,          \* the events dispatched since the last stream() that found no transport
  calls,           \* <<callback, type>> for each listener invoked by the last call
  thrown,          \* whether the last call ended by a TypeError
  call             \* the last call from outside: a method, a notification or "timer"

vars == << readyState, xhr, progress, chunk, listeners, handlers, lastEventId,
           reconnectDelay, retryCount, reconnectTimer, autoReconnect, maxRetries,
           useLastEventId, browser, xhrReadyState, status, body, loaded,
           requestHeader, opened, live, notes, events, calls, thrown, call >>

\* The world a call from outside starts in.
Cur ==
  [readyState |-> readyState, xhr |-> xhr, progress |-> progress, chunk |-> chunk,
   listeners |-> listeners, handlers |-> handlers, lastEventId |-> lastEventId,
   reconnectDelay |-> reconnectDelay, retryCount |-> retryCount,
   reconnectTimer |-> reconnectTimer, autoReconnect |-> autoReconnect,
   maxRetries |-> maxRetries, useLastEventId |-> useLastEventId, browser |-> browser,
   xhrReadyState |-> xhrReadyState, status |-> status, body |-> body, loaded |-> loaded,
   requestHeader |-> requestHeader, opened |-> opened, live |-> live, notes |-> notes,
   events |-> events, calls |-> <<>>, thrown |-> FALSE]

\* The state after a call that left the world w.
Becomes(w) ==
  /\ w.opened <= MaxOpened
  /\ readyState' = w.readyState
  /\ xhr' = w.xhr
  /\ progress' = w.progress
  /\ chunk' = w.chunk
  /\ listeners' = w.listeners
  /\ handlers' = w.handlers
  /\ lastEventId' = w.lastEventId
  /\ reconnectDelay' = w.reconnectDelay
  /\ retryCount' = w.retryCount
  /\ reconnectTimer' = w.reconnectTimer
  /\ autoReconnect' = w.autoReconnect
  /\ maxRetries' = w.maxRetries
  /\ useLastEventId' = w.useLastEventId
  /\ browser' = w.browser
  /\ xhrReadyState' = w.xhrReadyState
  /\ status' = w.status
  /\ body' = w.body
  /\ loaded' = w.loaded
  /\ requestHeader' = w.requestHeader
  /\ opened' = w.opened
  /\ live' = w.live
  /\ notes' = w.notes
  /\ events' = w.events
  /\ calls' = w.calls
  /\ thrown' = w.thrown

\* The object after `new SSE(url, {start: false, ...})`.
Constructed(auto, retries, useId, isBrowser, registry) ==
  [readyState |-> INITIALIZING, xhr |-> 0, progress |-> 0, chunk |-> <<>>,
   listeners |-> registry, handlers |-> <<>>, lastEventId |-> <<>>,
   reconnectDelay |-> DefaultReconnectDelay, retryCount |-> 0,
   reconnectTimer |-> None, autoReconnect |-> auto,
   maxRetries |-> retries, useLastEventId |-> useId, browser |-> isBrowser,
   xhrReadyState |-> UNSENT, status |-> 0, body |-> <<>>, loaded |-> 0,
   requestHeader |-> None, opened |-> 0, live |-> {}, notes |-> 0,
   events |-> <<>>, calls |-> <<>>, thrown |-> FALSE]

\* The responses of the server: a stream with an id, a complete record and a
\* trailing fragment; a stream that sets the retry delay; an error answer.
BodyA == ID \o <<COLON, "7", LF>> \o DATA \o <<COLON, "a", LF, LF>> \o DATA \o <<COLON, "b">>
BodyB == RETRY \o <<COLON, "5", LF>> \o DATA \o <<COLON, "c", CR, LF, CR, LF>>

\* The server flushes its response line by line: the prefixes of the body that
\* a progress notification can expose end after a CR, after a LF or with the body.
PacketEnds(b) == { i \in 1..Len(b) : b[i] \in {CR, LF} \/ i = Len(b) }

Responses ==
  { [status |-> 200, body |-> BodyA],
    [status |-> 200, body |-> BodyB],
    [status |-> 204, body |-> <<>>],
    [status |-> 500, body |-> <<"x">>] }

\* The listeners the application registered before the first call.
Registries ==
  { <<>>,
    (T_open :> <<"close">>),
    (MESSAGE :> <<"close">>),
    (T_abort :> <<"stream">>),
    (T_error :> <<"log", "stream">>) }

\* The state is the world w.
Is(w) ==
  /\ readyState = w.readyState
  /\ xhr = w.xhr
  /\ progress = w.progress
  /\ chunk = w.chunk
  /\ listeners = w.listeners
  /\ handlers = w.handlers
  /\ lastEventId = w.lastEventId
  /\ reconnectDelay = w.reconnectDelay
  /\ retryCount = w.retryCount
  /\ reconnectTimer = w.reconnectTimer
  /\ autoReconnect = w.autoReconnect
  /\ maxRetries = w.maxRetries
  /\ useLastEventId = w.useLastEventId
  /\ browser = w.browser
  /\ xhrReadyState = w.xhrReadyState
  /\ status = w.status
  /\ body = w.body
  /\ loaded = w.loaded
  /\ requestHeader = w.requestHeader
  /\ opened = w.opened
  /\ live = w.live
  /\ notes = w.notes
  /\ events = w.events
  /\ calls = w.calls
  /\ thrown = w.thrown

\* new SSE(url, options): stream() is called unless options.start is false.
Init ==
  \E auto \in BOOLEAN, retries \in 0..MaxRetriesLimit, useId \in BOOLEAN,
     isBrowser \in BOOLEAN, registry \in Registries, start \in BOOLEAN :
    /\ (~auto => retries = 0)
    /\ (registry # <<>> => ~auto /\ useId)
    /\ LET w == Constructed(auto, retries, useId, isBrowser, registry)
       IN Is(IF start THEN Stream(w) ELSE w)
    /\ call = "new"

\* ---- calls of the application

CallStream == Becomes(Stream(Cur)) /\ call' = "stream"

CallClose == Becomes(Close(Cur)) /\ call' = "close"

\* ---- the reconnect timer fires: the callback calls stream()
TimerFires ==
  /\ reconnectTimer # None
  /\ Becomes(Stream([Cur EXCEPT !.reconnectTimer = None]))
  /\ call' = "timer"

\* ---- the transport
\* The response headers arrive (the mock: the test sets status and prepares the
\* text): readystatechange with a state that is not DONE, which the object ignores.
Respond(r) ==
  /\ xhr # 0
  /\ xhrReadyState = OPENED
  /\ Becomes(CheckStreamClosed([Cur EXCEPT !.status = r.status, !.body = r.body,
                                           !.xhrReadyState = HEADERS_RECEIVED]))
  /\ call' = "readystatechange"

Receiving == xhr # 0 /\ xhrReadyState \in {HEADERS_RECEIVED, LOADING}

\* A browser's XMLHttpRequest received n more characters: progress.
XhrProgress(n) ==
  /\ browser /\ Receiving
  /\ loaded + n \in PacketEnds(body)
  /\ Becomes(OnStreamProgress([Cur EXCEPT !.loaded = @ + n, !.xhrReadyState = LOADING]))
  /\ call' = "progress"

\* A browser's XMLHttpRequest received the end of the body: a last progress,
\* readystatechange with DONE, then load, unless a handler aborted it before.
\* EndOfBody is what the three notifications make of the world w.
EndOfBody(w) ==
  LET Load(w2) ==
        IF w2.xhr # w.xhr THEN w2 ELSE OnStreamLoaded([w2 EXCEPT !.thrown = FALSE])
      Done(w1) ==
        IF w1.xhr # w.xhr \/ w1.xhrReadyState # LOADING THEN w1
        ELSE Load(CheckStreamClosed([w1 EXCEPT !.xhrReadyState = DONE, !.thrown = FALSE]))
  IN Done(OnStreamProgress([w EXCEPT !.loaded = Len(w.body), !.xhrReadyState = LOADING]))

XhrComplete ==
  /\ browser /\ Receiving
  /\ Becomes(EndOfBody(Cur))
  /\ call' = "load"

\* A browser's XMLHttpRequest lost the connection: readystatechange with DONE,
\* then error; the response is a network error.
XhrNetworkError ==
  /\ browser /\ xhr # 0
  /\ xhrReadyState \in {OPENED, HEADERS_RECEIVED, LOADING}
  /\ LET Fail(w1) ==
           IF w1.xhr # xhr THEN w1 ELSE OnStreamFailure([w1 EXCEPT !.thrown = FALSE])
     IN Becomes(Fail(CheckStreamClosed([Cur EXCEPT !.xhrReadyState = DONE, !.status = 0,
                                                   !.body = <<>>, !.loaded = 0])))
  /\ call' = "error"

\* The test triggers a notification of the mock, at any time after stream().
Triggered == [Cur EXCEPT !.notes = @ + 1]

MockCanTrigger == ~browser /\ opened > 0 /\ notes < MaxNotes

MockProgress(n) ==
  /\ MockCanTrigger
  /\ n = 0 \/ (xhr # 0 /\ loaded + n \in PacketEnds(body))
  /\ Becomes(OnStreamProgress([Triggered EXCEPT !.loaded = @ + n]))
  /\ call' = "progress"

MockLoad == MockCanTrigger /\ Becomes(OnStreamLoaded(Triggered)) /\ call' = "load"

MockError == MockCanTrigger /\ Becomes(OnStreamFailure(Triggered)) /\ call' = "error"

MockAbort == MockCanTrigger /\ Becomes(OnStreamAbort(Triggered)) /\ call' = "abort"

\* The test sets xhr.readyState to DONE and triggers readystatechange.
MockReadyStateChange ==
  /\ MockCanTrigger
  /\ Becomes(CheckStreamClosed([Triggered EXCEPT !.xhrReadyState = DONE]))
  /\ call' = "readystatechange"

Next ==
  \/ CallStream
  \/ CallClose
  \/ TimerFires
  \/ \E r \in Responses : Respond(r)
  \/ \E n \in 1..Len(body) : XhrProgress(n)
  \/ XhrComplete
  \/ XhrNetworkError
  \/ \E n \in 0..Len(body) : MockProgress(n)
  \/ MockLoad
  \/ MockError
  \/ MockAbort
  \/ MockReadyStateChange

Spec == Init /\ [][Next]_vars

\* ---------------------------------------------------------------- records
\* A second specification for what the parser makes of a record: the first
\* connection of an instance without listeners to a browser's transport, after the
\* headers of a 200 response arrived, the body being one record made of up to
\* MaxLines field lines, alone or followed by a data record.

MaxLines == 2

\* The lines the tests of the parser feed. Data: with a value, without a colon,
\* with an empty value, with one and with two spaces after the colon, with a
\* trailing space, with a second colon. Id: with a value, without a colon, with an
\* empty value, with a NUL. Event: two types and an empty one. Retry: digits, zero,
\* empty, signed, decimal, digits with a trailing space. A comment; an unknown field.
FieldLines ==
  { DATA \o <<COLON, "a">>, DATA, DATA \o <<COLON>>,
    DATA \o <<COLON, SP, "b">>, DATA \o <<COLON, SP, SP, "b">>,
    DATA \o <<COLON, "a", SP>>, DATA \o <<COLON, "a", COLON, "b">>,
    ID \o <<COLON, "5">>, ID, ID \o <<COLON>>, ID \o <<COLON, "6", NUL>>,
    EVENT \o <<COLON, "u">>, EVENT \o <<COLON, "v">>, EVENT \o <<COLON>>,
    RETRY \o <<COLON, "9">>, RETRY \o <<COLON, "0">>, RETRY \o <<COLON>>,
    RETRY \o <<COLON, "-", "1">>, RETRY \o <<COLON, "1", ".", "5">>,
    RETRY \o <<COLON, "9", SP>>,
    <<COLON, "c">>, <<"x", COLON, "y">> }

\* The record made of the lines, each ended by LF, and the blank line after it.
RECURSIVE RecordOf(_)
RecordOf(lines) ==
  IF lines = <<>> THEN <<LF>> ELSE Head(lines) \o <<LF>> \o RecordOf(Tail(lines))

RecordTexts == { RecordOf(ls) : ls \in UNION { [1..n -> FieldLines] : n \in 1..MaxLines } }

FollowUps == { <<>>, RecordOf(<< DATA \o <<COLON, "z">> >>) }

InitRecords ==
  \E text \in RecordTexts, more \in FollowUps :
    /\ Is([Stream(Constructed(FALSE, 0, TRUE, TRUE, <<>>))
             EXCEPT !.status = HTTP_OK, !.body = text \o more,
                    !.xhrReadyState = HEADERS_RECEIVED])
    /\ call = "readystatechange"

NextRecords ==
  \/ \E n \in 1..Len(body) : XhrProgress(n)
  \/ XhrComplete

SpecRecords == InitRecords /\ [][NextRecords]_vars

\* ----------------------------------------------------------- line endings
\* A third specification for the line endings: as SpecRecords, the record and the
\* data record that may follow it each written with LF, CR or CRLF as line ending.

EndingLines ==
  { DATA \o <<COLON, "a">>, DATA \o <<COLON, SP, "b">>, ID \o <<COLON, "5">>,
    EVENT \o <<COLON, "u">> }

\* The text with every LF written as eol.
RECURSIVE Restyle(_, _)
Restyle(text, eol) ==
  IF text = <<>> THEN <<>>
  ELSE (IF Head(text) = LF THEN eol ELSE <<Head(text)>>) \o Restyle(Tail(text), eol)

InitLineEndings ==
  \E ls \in UNION { [1..n -> EndingLines] : n \in 1..MaxLines },
     eol \in {<<LF>>, <<CR>>, <<CR, LF>>},
     more \in {<<>>} \cup { Restyle(RecordOf(<< DATA \o <<COLON, "z">> >>), e) :
                               e \in {<<LF>>, <<CR>>, <<CR, LF>>} } :
    /\ Is([Stream(Constructed(FALSE, 0, TRUE, TRUE, <<>>))
             EXCEPT !.status = HTTP_OK, !.body = Restyle(RecordOf(ls), eol) \o more,
                    !.xhrReadyState = HEADERS_RECEIVED])
    /\ call = "readystatechange"

SpecLineEndings == InitLineEndings /\ [][NextRecords]_vars

\* -------------------------------------------------------------- listeners
\* A fourth specification for the registry of listeners: the first connection of
\* an instance to a browser's transport, after the headers of a 200 response of
\* two message records arrived; the application adds and removes listeners of
\* message and of open, which only take note of the event, at any time.

ListenerTypes == {MESSAGE, T_open}

Callbacks == {"f", "g"}

TwoMessages == RecordOf(<< DATA \o <<COLON, "a">> >>) \o RecordOf(<< DATA \o <<COLON, "b">> >>)

InitListeners ==
  /\ Is([Stream(Constructed(FALSE, 0, TRUE, TRUE, <<>>))
           EXCEPT !.status = HTTP_OK, !.body = TwoMessages,
                  !.xhrReadyState = HEADERS_RECEIVED])
  /\ call = "readystatechange"

CallAddEventListener(type, listener) ==
  /\ Becomes(AddEventListener(Cur, type, listener))
  /\ call' = "addEventListener"

CallRemoveEventListener(type, listener) ==
  /\ Becomes(RemoveEventListener(Cur, type, listener))
  /\ call' = "removeEventListener"

NextListeners ==
  \/ \E type \in ListenerTypes, listener \in Callbacks : CallAddEventListener(type, listener)
  \/ \E type \in ListenerTypes, listener \in Callbacks : CallRemoveEventListener(type, listener)
  \/ \E n \in 1..Len(body) : XhrProgress(n)
  \/ XhrComplete

SpecListeners == InitListeners /\ [][NextListeners]_vars

\* ---------------------------------------------------------------- dispatch
\* A fifth specification for one dispatch: as SpecListeners, with on<type>
\* handlers the application may have set before stream(), and with listeners that
\* change the registry while they handle an event: "adder" registers "g" for the
\* type of the event, "remover" removes it.

DispatchCallbacks == {"f", "g", "adder", "remover"}

\* The on<type> properties the application sets: none, onmessage, or all three.
HandlerSets ==
  { <<>>,
    (MESSAGE :> "h"),
    (MESSAGE :> "h") @@ (T_open :> "h") @@ (T_readystatechange :> "h") }

InitDispatch ==
  \E hs \in HandlerSets :
    /\ Is([Stream(Constructed(FALSE, 0, TRUE, TRUE, <<>>))
             EXCEPT !.status = HTTP_OK, !.body = TwoMessages,
                    !.xhrReadyState = HEADERS_RECEIVED, !.handlers = hs])
    /\ call = "readystatechange"

\* The listeners the application registers for a type: those that change the
\* registry are listeners of message.
CallbacksOf(type) == IF type = MESSAGE THEN DispatchCallbacks ELSE Callbacks

NextDispatch ==
  \/ \E type \in ListenerTypes : \E listener \in CallbacksOf(type) :
       CallAddEventListener(type, listener)
  \/ \E type \in ListenerTypes : \E listener \in CallbacksOf(type) :
       CallRemoveEventListener(type, listener)
  \/ \E n \in 1..Len(body) : XhrProgress(n)
  \/ XhrComplete

SpecDispatch == InitDispatch /\ [][NextDispatch]_vars

\* ----------------------------------------------------------------- closing
\* A sixth specification for a close() made by a listener: an instance on a
\* browser's transport whose listeners of message are "f", which takes note, and
\* "close", which calls close(); the server answers with two records and a
\* fragment, or with three records; the application may call close() and stream().

ClosingRegistries ==
  { (MESSAGE :> <<"close">>), (MESSAGE :> <<"f", "close">>),
    (MESSAGE :> <<"close", "f">>), (MESSAGE :> <<"f">>) }

ClosingResponses ==
  { [status |-> 200, body |-> TwoMessages \o DATA \o <<COLON, "c">>],
    [status |-> 200, body |-> TwoMessages \o RecordOf(<< DATA \o <<COLON, "c">> >>)] }

InitClosing ==
  \E registry \in ClosingRegistries :
    /\ Is(Stream(Constructed(FALSE, 0, TRUE, TRUE, registry)))
    /\ call = "new"

NextClosing ==
  \/ CallStream
  \/ CallClose
  \/ \E r \in ClosingResponses : Respond(r)
  \/ \E n \in 1..Len(body) : XhrProgress(n)
  \/ XhrComplete

SpecClosing == InitClosing /\ [][NextClosing]_vars

\* ------------------------------------------------------------ properties

\* The notifications of a transport, as values of `call`.
Notifications == {"progress", "load", "error", "abort", "readystatechange"}

\* An event made from a record of the stream.
IsData(e) == e.type \notin {T_readystatechange, T_open, T_error, T_abort}

\* The world after the response of the current transport was delivered whole:
\* one end-of-body on a fresh object with the same options and listeners.
WholeResponse ==
  EndOfBody([Stream(Constructed(autoReconnect, maxRetries, useLastEventId, browser, listeners))
               EXCEPT !.status = status, !.body = body, !.xhrReadyState = HEADERS_RECEIVED])

\* C1: however the response text of the first connection was cut into progress
\* notifications before the transport completed, the events dispatched and the
\* final lastEventId and reconnectDelay are those of the text delivered whole.
ChunkBoundaryInvariance ==
  (browser /\ listeners = <<>> /\ opened = 1 /\ xhr = 1 /\ xhrReadyState = DONE
     /\ status = HTTP_OK)
    => /\ events = WholeResponse.events
       /\ lastEventId = WholeResponse.lastEventId
       /\ reconnectDelay = WholeResponse.reconnectDelay

\* C2: a notification of the transport that arrives right after close() returned
\* dispatches no event, opens no transport and arms no reconnect.
NoEventAfterClose ==
  [][(call = "close" /\ ~thrown /\ call' \in Notifications)
       => (events' = events /\ opened' = opened /\ reconnectTimer' = None)]_vars

\* C3: with a retry limit, auto-reconnect comes to rest (CLOSED, still enabled, no
\* reconnect pending) only when as many reconnects as the limit have been made.
RetriesExhaustedBeforeStopping ==
  (autoReconnect /\ maxRetries > 0 /\ readyState = CLOSED /\ reconnectTimer = None)
    => retryCount = maxRetries

ReconnectFollowsClosed ==
  [][(readyState = CLOSED /\ reconnectTimer # None /\ call' = "timer")
       => readyState' = CONNECTING]_vars

Transitions ==
  { <<INITIALIZING, CONNECTING>>, <<CONNECTING, OPEN>>, <<CONNECTING, CLOSED>>,
    <<OPEN, CLOSED>>, <<CLOSED, CONNECTING>> }

\* C8: readyState is INITIALIZING until the first stream(), and a call changes it
\* only along INITIALIZING->CONNECTING, CONNECTING->OPEN, CONNECTING->CLOSED,
\* OPEN->CLOSED, CLOSED->CONNECTING, or through OPEN from CONNECTING to CLOSED.
OnlyListedTransitions ==
  /\ [](opened = 0 => readyState = INITIALIZING)
  /\ [][readyState' = readyState \/ <<readyState, readyState'>> \in Transitions]_vars

\* C9: at most one transport is active, and a stream() (manual or by the reconnect
\* timer) that finds a transport opens none, dispatches nothing and leaves
\* readyState as it is.
OneTransport ==
  /\ [](live \subseteq {xhr})
  /\ [][(call' \in {"stream", "timer"} /\ xhr # 0)
          => (opened' = opened /\ xhr' = xhr /\ live' = live /\ events' = events
              /\ readyState' = readyState)]_vars

\* stream() was called on an OPEN connection.
StreamWhileOpen ==
  call = "stream" /\ readyState = OPEN /\ xhr # 0 /\ live = {xhr} /\ opened = 1

\* The events of the current attempt are in the documented order.
EventOrder ==
  /\ events # <<>> => events[1] = ReadyStateChange(CONNECTING)
  /\ Cardinality({ i \in 1..Len(events) : events[i].type = T_open }) <= 1
  /\ \A i \in 1..Len(events) :
       events[i] = ReadyStateChange(OPEN) => \E j \in 1..(i - 1) : events[j].type = T_open
  /\ \A i \in 1..Len(events) :
       IsData(events[i]) => \E j \in 1..(i - 1) : events[j] = ReadyStateChange(OPEN)

\* C10: on a transport that notifies in the order of XMLHttpRequest, the events of
\* one attempt start with readystatechange(CONNECTING), open comes once and before
\* readystatechange(OPEN), and every data event comes after both.
OpenBeforeData == browser => EventOrder

\* A data event was dispatched on a browser's transport.
DataDispatched ==
  browser /\ \E i \in 1..Len(events) : IsData(events[i]) /\ events[i].data # <<>>

\* The events a step dispatched: what it appended to the log.
Added == SubSeq(events', Len(events) + 1, Len(events'))

\* The positions of the events of one type in a log.
Of(log, type) == { i \in 1..Len(log) : log[i].type = type }

\* The positions of readystatechange(CLOSED) in a log.
ClosedIn(log) ==
  { i \in 1..Len(log) : log[i].type = T_readystatechange /\ log[i].readyState = Some(CLOSED) }

\* The instance is connected: CONNECTING or OPEN, with a transport.
Connected == xhr # 0 /\ readyState \in {CONNECTING, OPEN}

\* C11: an error notification of the transport, or a progress or load notification
\* that shows a status outside 200..299, on a connected instance dispatches exactly
\* one error event, before the readystatechange for CLOSED, and leaves the instance
\* CLOSED with no transport.
ErrorThenClosed ==
  [][(/\ Connected
      /\ \/ call' = "error"
         \/ call' \in {"progress", "load"} /\ status \notin 200..299)
     => /\ readyState' = CLOSED
        /\ xhr' = 0
        /\ xhr \notin live'
        /\ Cardinality(Of(Added, T_error)) = 1
        /\ ClosedIn(Added) # {}
        /\ \A i \in Of(Added, T_error) : \A j \in ClosedIn(Added) : i < j]_vars

\* C12: a progress or load notification on a connected instance is handled as a
\* failure exactly when the status is outside 200..299: with any 2xx status no
\* error event is dispatched, with any other status an error event is dispatched,
\* no data event is, and the instance is left CLOSED.
SuccessIsAny2xx ==
  [][(Connected /\ call' \in {"progress", "load"})
     => /\ (Of(Added, T_error) # {}) <=> (status \notin 200..299)
        /\ status \notin 200..299
             => /\ readyState' = CLOSED
                /\ \A i \in 1..Len(Added) : ~IsData(Added[i])]_vars

ClosedBeforeAbort ==
  browser => \A i \in Of(events, T_abort) : \E j \in ClosedIn(events) : j < i

\* A browser's transport was aborted and the abort event was dispatched.
AbortDispatched == browser /\ Of(events, T_abort) # {} /\ readyState = CLOSED

\* C15: a stream() call on a CLOSED instance, whichever way it was closed, opens a
\* new transport and leaves the instance CONNECTING.
StreamReopensClosed ==
  [][(call' = "stream" /\ readyState = CLOSED)
     => /\ readyState' = CONNECTING
        /\ opened' = opened + 1
        /\ xhr' = opened'
        /\ xhr' \in live']_vars

\* C16: when a listener of abort called stream() during the last call or
\* notification, that call or notification leaves a live transport and CONNECTING.
AbortListenerReconnects ==
  (\E i \in 1..Len(calls) : calls[i] = <<"stream", T_abort>>)
    => readyState = CONNECTING /\ xhr # 0 /\ xhr \in live

\* The record boundaries of a text, and the fragment after the last of them.
Boundaries(text) == (Len(SplitRecords(text)) - 1) \div 2

TrailingFragment(text) == SplitRecords(text)[Len(SplitRecords(text))]

\* The positions of the data events in a log.
DataIn(log) == { i \in 1..Len(log) : IsData(log[i]) }

\* C17: on the first connection of an instance without listeners, to a browser's
\* transport whose response ends in a fragment without a record boundary: while the
\* response is being received at most one data event per boundary received was
\* dispatched and the fragment received is the residual buffer; when the transport
\* has completed, the fragment was dispatched as one more event, before the
\* readystatechange for CLOSED.
TrailingFragmentFlushed ==
  (/\ browser /\ opened = 1 /\ xhr = 1 /\ listeners = <<>> /\ status = HTTP_OK
   /\ Trim(TrailingFragment(body)) # <<>>)
    => /\ (call = "progress" /\ xhrReadyState = LOADING)
            => /\ Cardinality(DataIn(events)) <= Boundaries(ResponseText(Cur))
               /\ chunk = TrailingFragment(ResponseText(Cur))
       /\ call = "load"
            => /\ Cardinality(DataIn(events)) = Boundaries(body) + 1
               /\ \A i \in DataIn(events) : \A j \in ClosedIn(events) : i < j

FieldName(line) ==
  IF IndexOf(line, COLON) < 0 THEN line ELSE SubSeq(line, 1, IndexOf(line, COLON))

\* The value of the field of a line: the text after the first colon, less one
\* leading space.
FieldValue(line) ==
  LET rest == IF IndexOf(line, COLON) < 0 THEN <<>> ELSE Substring(line, IndexOf(line, COLON) + 1)
  IN IF rest # <<>> /\ Head(rest) = SP THEN Tail(rest) ELSE rest

\* The lines of a record that are of one field.
LinesOf(record, field) ==
  SelectSeq(SplitLines(record), LAMBDA line : FieldName(line) = field)

\* The records of a text: its pieces between record boundaries that are not blank.
RecordsOf(text) == SelectSeq(SplitRecords(text), LAMBDA piece : Trim(piece) # <<>>)

\* The response was received whole on the first connection.
ReceivedWhole == opened = 1 /\ xhr = 1 /\ loaded = Len(body)

\* C19: when a response of complete records was received whole, one event was
\* dispatched for each record that has a data line (with a value or without), and
\* none for the records made only of id, event, retry, comment or unknown lines.
EventIffDataLine ==
  ReceivedWhole
    => Cardinality(DataIn(events))
         = Cardinality({ i \in 1..Len(RecordsOf(body)) : LinesOf(RecordsOf(body)[i], DATA) # <<>> })

\* C20: when the first record of a response received whole has an id line and no
\* data line, no event was dispatched for it, lastEventId is that id unless a
\* later record changed it, and the events of the later records carry that id as
\* their lastEventId.
IdWithoutData ==
  LET first == RecordsOf(body)[1]
      ids == LinesOf(first, ID)
  IN (ReceivedWhole /\ ids # <<>> /\ LinesOf(first, DATA) = <<>>)
       => /\ Cardinality(DataIn(events)) = Len(RecordsOf(body)) - 1
          /\ lastEventId = FieldValue(ids[Len(ids)])
          /\ \A i \in DataIn(events) : events[i].lastEventId = FieldValue(ids[Len(ids)])

\* The values of the lines of one field in a record, in order.
RECURSIVE ValuesOf(_)
ValuesOf(lines) ==
  IF lines = <<>> THEN <<>> ELSE <<FieldValue(Head(lines))>> \o ValuesOf(Tail(lines))

\* The values joined with one line feed between successive values.
RECURSIVE JoinLF(_)
JoinLF(values) ==
  IF values = <<>> THEN <<>>
  ELSE IF Len(values) = 1 THEN values[1]
  ELSE values[1] \o <<LF>> \o JoinLF(Tail(values))

\* The first record of the response, and the event dispatched first for a record.
FirstRecord == RecordsOf(body)[1]

FirstDataEvent == events[CHOOSE i \in DataIn(events) : \A j \in DataIn(events) : i <= j]

\* C21: when a response was received whole whose first record has data lines, the
\* event dispatched for it carries the values of those lines, in order, joined with
\* one line feed between successive values and nothing before or after.
DataJoinedByLineFeed ==
  (ReceivedWhole /\ LinesOf(FirstRecord, DATA) # <<>>)
    => /\ DataIn(events) # {}
       /\ FirstDataEvent.data = JoinLF(ValuesOf(LinesOf(FirstRecord, DATA)))

\* The type of the event of a record: the value of its last event line when that
\* is not empty, message otherwise.
TypeOf(record) ==
  LET types == ValuesOf(LinesOf(record, EVENT))
  IN IF types = <<>> \/ types[Len(types)] = <<>> THEN MESSAGE ELSE types[Len(types)]

LastDataEvent == events[CHOOSE i \in DataIn(events) : \A j \in DataIn(events) : j <= i]

\* C22: when a response was received whole whose first record has a data line, the
\* event dispatched for it has the type of the record, and the event of the data
\* record that follows, which names no type, is a message event.
TypeFromLastEventField ==
  (ReceivedWhole /\ LinesOf(FirstRecord, DATA) # <<>>)
    => /\ DataIn(events) # {}
       /\ FirstDataEvent.type = TypeOf(FirstRecord)
       /\ Len(RecordsOf(body)) = 2 => LastDataEvent.type = MESSAGE

\* The first record of the response names a type of its own and has a data line.
TypedRecord ==
  /\ ReceivedWhole
  /\ LinesOf(FirstRecord, DATA) # <<>>
  /\ TypeOf(FirstRecord) # MESSAGE

RECURSIVE ToLF(_)
ToLF(text) ==
  IF text = <<>> THEN <<>>
  ELSE IF StartsAt(text, 1, <<CR, LF>>) THEN <<LF>> \o ToLF(SubSeq(text, 3, Len(text)))
  ELSE IF Head(text) = CR THEN <<LF>> \o ToLF(Tail(text))
  ELSE <<Head(text)>> \o ToLF(Tail(text))

\* The data events of a log, in order.
DataEventsOf(log) == SelectSeq(log, IsData)

\* The log after a text was received whole, in one progress notification, on the
\* first connection of an instance without listeners.
Delivered(text) ==
  OnStreamProgress([Stream(Constructed(FALSE, 0, TRUE, TRUE, <<>>))
                      EXCEPT !.status = HTTP_OK, !.body = text, !.loaded = Len(text),
                             !.xhrReadyState = LOADING]).events

\* C24: when a response was received whole, the data events dispatched are those
\* of the same text written with LF as every line ending.
LineEndingEquivalence ==
  ReceivedWhole => DataEventsOf(events) = DataEventsOf(Delivered(ToLF(body)))

\* The values of the id lines of a record that hold no NUL, in order.
IdsOf(record) ==
  SelectSeq(ValuesOf(LinesOf(record, ID)), LAMBDA v : \A i \in 1..Len(v) : v[i] # NUL)

\* C25: when a response was received whole, lastEventId is the value of the last id
\* line without NUL of its first record (the empty text for an id line without a
\* value), and is still empty when the record has no such line; the event of the
\* record, when it has a data line, carries that value as id (none when the record
\* has no such line) and lastEventId as it is after the record.
IdBecomesLastEventId ==
  LET ids == IdsOf(FirstRecord)
  IN ReceivedWhole
       => /\ lastEventId = IF ids = <<>> THEN <<>> ELSE ids[Len(ids)]
          /\ LinesOf(FirstRecord, DATA) # <<>>
               => /\ DataIn(events) # {}
                  /\ FirstDataEvent.id = IF ids = <<>> THEN None ELSE Some(ids[Len(ids)])
                  /\ FirstDataEvent.lastEventId = lastEventId

\* The values of the retry lines of a record that are made of digits, in order.
DelaysOf(record) ==
  SelectSeq(ValuesOf(LinesOf(record, RETRY)),
            LAMBDA v : v # <<>> /\ \A i \in 1..Len(v) : v[i] \in Digits)

FieldTokenization ==
  (/\ ReceivedWhole
   /\ Len(SplitLines(FirstRecord)) = 1
   /\ FieldInRecord(FieldName(FirstRecord)))
    => /\ ParseRecord(FirstRecord)
            = SetField(NewRecord, FieldName(FirstRecord), FieldValue(FirstRecord))
       /\ FieldName(FirstRecord) = DATA
            => DataIn(events) # {} /\ FirstDataEvent.data = FieldValue(FirstRecord)

\* A comment line, or a line of a field that is not id, event, data or retry.
Ignorable(line) ==
  line # <<>> /\ (Head(line) = COLON \/ ~FieldInRecord(FieldName(line)))

\* The lines joined again, with LF after each but the last.
RECURSIVE JoinLines(_)
JoinLines(lines) ==
  IF lines = <<>> THEN <<>>
  ELSE IF Len(lines) = 1 THEN lines[1]
  ELSE lines[1] \o <<LF>> \o JoinLines(Tail(lines))

\* The text without its ignorable lines.
WithoutIgnorable(text) ==
  JoinLines(SelectSeq(SplitLines(text), LAMBDA line : ~Ignorable(line)))

\* The instance after a text was received whole, in one progress notification, on
\* the first connection of an instance without listeners.
ReceivedAtOnce(text) ==
  OnStreamProgress([Stream(Constructed(FALSE, 0, TRUE, TRUE, <<>>))
                      EXCEPT !.status = HTTP_OK, !.body = text, !.loaded = Len(text),
                             !.xhrReadyState = LOADING])

\* C28: when a response was received whole, the data events dispatched, lastEventId
\* and reconnectDelay are those of the same text without its comment lines and
\* without its lines of unknown fields.
IgnorableLinesChangeNothing ==
  ReceivedWhole
    => /\ DataEventsOf(events) = DataEventsOf(ReceivedAtOnce(WithoutIgnorable(body)).events)
       /\ lastEventId = ReceivedAtOnce(WithoutIgnorable(body)).lastEventId
       /\ reconnectDelay = ReceivedAtOnce(WithoutIgnorable(body)).reconnectDelay

\* C29: whatever lines the records of the response are made of, no progress or load
\* notification raised an error, the instance is OPEN after a progress notification
\* and CLOSED after the transport completed, and when the response was received
\* whole at most one event per record was dispatched.
ParsingIsTotal ==
  /\ ~thrown
  /\ call = "progress" => readyState = OPEN
  /\ call = "load" => readyState = CLOSED
  /\ ReceivedWhole => Cardinality(DataIn(events)) <= Len(RecordsOf(body))

\* A record with a line without a colon, a NUL or an unknown field was parsed.
MalformedParsed ==
  /\ ReceivedWhole /\ call = "progress" /\ DataIn(events) # {}
  /\ \E i \in 1..Len(SplitLines(FirstRecord)) :
        LET line == SplitLines(FirstRecord)[i]
        IN \/ IndexOf(line, COLON) < 0
           \/ NUL \in { line[k] : k \in 1..Len(line) }
           \/ ~FieldInRecord(FieldName(line))

\* How many times a listener was invoked for events of one type by the last call.
Invocations(log, listener, type) ==
  Cardinality({ i \in 1..Len(log) : log[i] = <<listener, type>> })

\* C30: whatever addEventListener calls were made, no listener is registered twice
\* for a type, an addEventListener call for a registered pair leaves the registry
\* unchanged, and a progress or load notification invokes each registered listener
\* once for each event of its type that the notification dispatched.
AddEventListenerIdempotent ==
  [][/\ \A type \in DOMAIN listeners' : \A i, j \in 1..Len(listeners'[type]) :
          listeners'[type][i] = listeners'[type][j] => i = j
     /\ call' = "addEventListener"
          => \/ listeners' = listeners
             \/ \E type \in ListenerTypes, listener \in Callbacks :
                  /\ type \in DOMAIN listeners
                       => \A i \in 1..Len(listeners[type]) : listeners[type][i] # listener
                  /\ listeners' = AddAlways(Cur, type, listener).listeners
     /\ call' \in {"progress", "load"}
          => \A type \in DOMAIN listeners : \A i \in 1..Len(listeners[type]) :
               Invocations(calls', listeners[type][i], type) = Cardinality(Of(Added, type))]_vars

\* Both listeners of message were invoked for the two events of one notification.
ListenersInvoked ==
  /\ call = "progress"
  /\ MESSAGE \in DOMAIN listeners /\ Len(listeners[MESSAGE]) = 2
  /\ Invocations(calls, "f", MESSAGE) = 2 /\ Invocations(calls, "g", MESSAGE) = 2

\* The listeners registered take note of the event and do nothing else.
Inert(registry) ==
  \A type \in DOMAIN registry : \A i \in 1..Len(registry[type]) :
    registry[type][i] \in Callbacks

\* The invocations one event asks for: the handler of its type, then the
\* listeners of its type in the order of the registry.
InvocationsFor(e, hs, registry) ==
  (IF e.type \in DOMAIN hs THEN << <<hs[e.type], e.type>> >> ELSE <<>>)
    \o (IF e.type \in DOMAIN registry
          THEN [i \in 1..Len(registry[e.type]) |-> <<registry[e.type][i], e.type>>]
          ELSE <<>>)

\* The invocations a sequence of events asks for, event after event.
RECURSIVE ExpectedCalls(_, _, _)
ExpectedCalls(log, hs, registry) ==
  IF log = <<>> THEN <<>>
  ELSE InvocationsFor(Head(log), hs, registry) \o ExpectedCalls(Tail(log), hs, registry)

\* C31: when the listeners registered only take note of the event, the callbacks
\* invoked by a progress or load notification are, for each event it dispatched in
\* turn, the on<type> handler if one is set and then every listener of that type
\* once in the order of registration, all of them before the next event's.
HandlerThenListeners ==
  [][call' \in {"progress", "load"} /\ Inert(listeners)
       => calls' = ExpectedCalls(Added, handlers, listeners)]_vars

\* A notification dispatched open and two messages to a handler and two listeners
\* of message registered in the order g, f, and to a listener of open.
HandlerAndListenersInvoked ==
  /\ call = "progress"
  /\ MESSAGE \in DOMAIN handlers /\ T_open \in DOMAIN handlers
  /\ MESSAGE \in DOMAIN listeners /\ listeners[MESSAGE] = <<"g", "f">>
  /\ T_open \in DOMAIN listeners /\ listeners[T_open] = <<"f">>
  /\ calls = << <<"h", T_open>>, <<"f", T_open>>, <<"h", T_readystatechange>>,
                <<"h", MESSAGE>>, <<"g", MESSAGE>>, <<"f", MESSAGE>>,
                <<"h", MESSAGE>>, <<"g", MESSAGE>>, <<"f", MESSAGE>> >>

\* What a listener does to the registry when it handles an event of a type.
Effect(registry, callback, type) ==
  IF callback = "adder"
    THEN AddEventListener([listeners |-> registry], type, "g").listeners
  ELSE IF callback = "remover"
    THEN RemoveEventListener([listeners |-> registry], type, "g").listeners
  ELSE registry

\* The registry after each listener of a pass did what it does.
RECURSIVE EffectsOf(_, _, _)
EffectsOf(registry, pass, type) ==
  IF pass = <<>> THEN registry
  ELSE EffectsOf(Effect(registry, Head(pass), type), Tail(pass), type)

\* The invocations a sequence of events asks for when the pass of each event is
\* the registry of its type as the dispatch finds it, and the registry they leave.
RECURSIVE PassesOf(_, _, _)
PassesOf(log, hs, registry) ==
  IF log = <<>> THEN [calls |-> <<>>, listeners |-> registry]
  ELSE LET type == Head(log).type
           pass == IF type \in DOMAIN registry THEN registry[type] ELSE <<>>
           rest == PassesOf(Tail(log), hs, EffectsOf(registry, pass, type))
       IN [calls |-> InvocationsFor(Head(log), hs, registry) \o rest.calls,
           listeners |-> rest.listeners]

\* C32: the listeners a dispatch invokes are those registered for the type when
\* the dispatch starts, in that order: a listener registered by a listener during
\* the pass is not invoked in it, a listener removed during the pass before its
\* turn is still invoked in it, and both changes hold from the next dispatch on.
PassFixedAtStart ==
  [][call' \in {"progress", "load"}
       => /\ calls' = PassesOf(Added, handlers, listeners).calls
          /\ listeners' = PassesOf(Added, handlers, listeners).listeners]_vars

\* One message went to remover, g, adder: g, removed before its turn, was invoked
\* once, and not again after adder registered it anew.
RemovedStillInvoked ==
  /\ call = "progress"
  /\ calls = << <<"remover", MESSAGE>>, <<"g", MESSAGE>>, <<"adder", MESSAGE>> >>
  /\ MESSAGE \in DOMAIN listeners /\ listeners[MESSAGE] = <<"remover", "adder", "g">>

\* The pair is in the registry.
Registered(registry, type, listener) ==
  type \in DOMAIN registry
    /\ \E i \in 1..Len(registry[type]) : registry[type][i] = listener

\* The registry without the pair: the other listeners of the type in their order,
\* the other types untouched, and no entry for a type left without listeners.
Without(registry, type, listener) ==
  LET others == { t \in DOMAIN registry : t # type }
      rest == IF type \in DOMAIN registry
                THEN SelectSeq(registry[type], LAMBDA element : element # listener)
                ELSE <<>>
  IN [t \in others \cup (IF rest = <<>> THEN {} ELSE {type}) |->
        IF t = type THEN rest ELSE registry[t]]

\* What a step shows of removeEventListener: a call removes one pair and nothing
\* else, changes nothing when the pair is not registered, and a notification
\* invokes no listener for a type it is not registered for.
RemovalLaw ==
  /\ call' = "removeEventListener"
       => \E type \in ListenerTypes, listener \in Callbacks :
            /\ listeners' = Without(listeners, type, listener)
            /\ ~Registered(listeners, type, listener) => listeners' = listeners
  /\ call' \in {"progress", "load"}
       => \A type \in ListenerTypes, listener \in Callbacks :
            ~Registered(listeners, type, listener)
              => Invocations(calls', listener, type) = 0

\* The registry after addEventListener, then removeEventListener, of the pair.
AddedThenRemoved(type, listener) ==
  RemoveEventListener(AddEventListener(Cur, type, listener), type, listener).listeners

\* C33 as stated: removeEventListener removes the pair and only the pair, and
\* addEventListener followed by removeEventListener of any pair gives back the
\* registry as it was.
RemoveUndoesAdd ==
  [][/\ RemovalLaw
     /\ \A type \in ListenerTypes, listener \in Callbacks :
          AddedThenRemoved(type, listener) = listeners]_vars

\* C33: removeEventListener removes the pair and only the pair, and
\* addEventListener followed by removeEventListener of a pair that was not
\* registered gives back the registry as it was, an empty one without any entry.
RemoveUndoesFreshAdd ==
  [][/\ RemovalLaw
     /\ \A type \in ListenerTypes, listener \in Callbacks :
          ~Registered(listeners, type, listener)
            => AddedThenRemoved(type, listener) = listeners]_vars

\* After a message was dispatched, a removeEventListener call left g as the only
\* listener registered.
ListenerRemoved ==
  /\ call = "removeEventListener"
  /\ Of(events, MESSAGE) # {}
  /\ listeners = (MESSAGE :> <<"g">>)

\* C34: a call that leaves readyState CLOSED, having found it otherwise, leaves
\* the residual buffer empty and the processed offset at zero.
ClosedResetsParser ==
  [][readyState # CLOSED /\ readyState' = CLOSED /\ ~thrown'
       => chunk' = <<>> /\ progress' = 0]_vars

\* C35: when a listener of message calls close(), a progress or load notification
\* of a connected instance dispatches no data event after the first one.
CloseStopsDispatch ==
  [][call' \in {"progress", "load"} /\ Connected
       /\ Registered(listeners, MESSAGE, "close")
       => Cardinality(DataIn(Added)) <= 1]_vars

\* The positions of readystatechange(OPEN) in a log.
OpenedIn(log) ==
  { i \in 1..Len(log) : log[i].type = T_readystatechange /\ log[i].readyState = Some(OPEN) }

OneClosedPerClosing ==
  [][listeners = <<>>
       => /\ Cardinality(ClosedIn(Added)) <= 1
          /\ readyState = CLOSED /\ opened' = opened => ClosedIn(Added) = {}]_vars

\* The records of a text that a record boundary ends.
CompleteRecords(text) ==
  SelectSeq(SubSeq(SplitRecords(text), 1, Len(SplitRecords(text)) - 1),
            LAMBDA piece : Trim(piece) # <<>>)

\* What identifies the event made from a record: its type, data and id.
Payload(e) == <<e.type, e.data, e.id>>

\* The events of the complete records of a text, in the order of the stream.
EventsOfRecords(text) ==
  [i \in 1..Len(CompleteRecords(text)) |->
     Payload(ParseEventChunk(Cur, CompleteRecords(text)[i]))]

\* The data events dispatched since the connection was started.
DispatchedSoFar ==
  [i \in 1..Len(DataEventsOf(events)) |-> Payload(DataEventsOf(events)[i])]

\* C39: while a browser's transport delivers a 200 response to an instance
\* without listeners, after each progress notification the data events dispatched
\* on the connection are those of the complete records of the text received so
\* far, one for each, in the order of the stream.
EachRecordOnce ==
  (browser /\ listeners = <<>> /\ call = "progress" /\ status = HTTP_OK
     /\ xhr # 0 /\ xhrReadyState = LOADING)
    => DispatchedSoFar = EventsOfRecords(ResponseText(Cur))

\* C40: a close() call on an instance that has no transport and is not CLOSED
\* raises no error and leaves readyState CLOSED.
CloseWithoutTransport ==
  [][call' = "close" /\ xhr = 0 /\ readyState # CLOSED
       => ~thrown' /\ readyState' = CLOSED]_vars


====
